---- MODULE Spec2Model ----
(***************************************************************************)
(* FridgeChef: the per-user AI credential lifecycle.                       *)
(*                                                                         *)
(* The model covers the encryption utility (utils/encryption.js), the      *)
(* provider registry and key validator (utils/aiHelper.js), the credential *)
(* handlers of controllers/profileController.js and the AI-calling         *)
(* handlers of recipeController.js / ingredientController.js, over the     *)
(* credential fields of the User schema.                                   *)
(*                                                                         *)
(* Conventions for JavaScript values:                                      *)
(*   - a plaintext key is a number 1..MaxSecret; 0 is any falsy or blank   *)
(*     value (undefined, null, "", whitespace only);                       *)
(*   - an encrypted key "salt:iv:tag:data" is the sequence of its          *)
(*     ':'-separated parts; << >> is null;                                 *)
(*   - NULL is null/undefined for string-valued fields.                    *)
(***************************************************************************)
EXTENDS Integers, Sequences, FiniteSets, TLC

\* ------------------------------------------------------------------ bounds
MaxSecret == 2
MaxSalt == 1
MaxCount == 1

NULL == "null"
NoSecret == << >>

Secrets == 1..MaxSecret
\* crypto.randomBytes(SALT_LENGTH), crypto.randomBytes(IV_LENGTH)
Salts == 0..MaxSalt
Ivs == {0}
\* The values of process.env.ENCRYPTION_SECRET when it is set.
Masters == {1, 2}

\* ------------------------------------------------- utils/encryption.js
\* PBKDF2 of (ENCRYPTION_SECRET, salt): one key per (secret, salt) pair.
deriveKey(secret, salt) == secret * (MaxSalt + 1) + salt

\* AES-256-GCM is a counter-mode stream cipher with a tag over the
\* ciphertext: the keystream depends on (key, iv), the tag on (key, iv, data).
\* The tag is a sequence of two halves, each of which depends on all three;
\* a tag cut to its first half is a shorter tag of the same message.
\* cipher.update(text, 'utf8', 'hex') encodes the text as UTF-8 and
\* decipher.update(encrypted, 'hex', 'utf8') decodes it.  A JavaScript string
\* may hold an unpaired surrogate, which UTF-8 cannot encode: it is encoded
\* as U+FFFD.  IllFormed is such a string, Replacement the string "\uFFFD".
IllFormed == MaxSecret + 1
Replacement == MaxSecret + 2
Texts == Secrets \cup {IllFormed, Replacement}
Utf8Encode(text) == IF text = IllFormed THEN Replacement ELSE text
Utf8Decode(bytes) == bytes

Radix == MaxSecret + 3
KeyStream(key, iv) == (key + iv) % Radix
CipherUpdate(key, iv, text) == (text + KeyStream(key, iv)) % Radix
\* decipher.update that leaves the keystream on the data.
DecipherUpdateRaw(key, iv, data) == data

DecipherUpdate(key, iv, data) == (data + Radix - KeyStream(key, iv)) % Radix
AuthTag(key, iv, data) ==
  LET t == (key * Cardinality(Ivs) + iv) * Radix + data
  IN  << t, t >>

\* decipher.setAuthTag(authTag) / decipher.final(): createDecipheriv is given
\* no authTagLength, so a tag of any length GCM allows is compared with the
\* computed tag cut to that length.
TagVerifies(authTag, computed) ==
  /\ Len(authTag) \in 1..Len(computed)
  /\ authTag = SubSeq(computed, 1, Len(authTag))

Threw(message) == [ok |-> FALSE, error |-> message]
Returned(v) == [ok |-> TRUE, value |-> v]

\* encrypt that does not require ENCRYPTION_SECRET.
encryptUnchecked(text, master, salt, iv) ==
  IF text = 0
    THEN Threw("Failed to encrypt data")
    ELSE LET key == deriveKey(master, salt)
             encrypted == CipherUpdate(key, iv, Utf8Encode(text))
             authTag == AuthTag(key, iv, encrypted)
         IN  Returned(<<salt, iv, authTag, encrypted>>)

\* encrypt with a constant salt and iv in place of the random ones.
encryptFixedSalt(text, master, salt, iv) ==
  IF text = 0 \/ master = 0
    THEN Threw("Failed to encrypt data")
    ELSE LET key == deriveKey(master, 0)
             encrypted == CipherUpdate(key, 0, Utf8Encode(text))
             authTag == AuthTag(key, 0, encrypted)
         IN  Returned(<<0, 0, authTag, encrypted>>)

encrypt(text, master, salt, iv) ==
  IF text = 0 \/ master = 0
    THEN Threw("Failed to encrypt data")
    ELSE LET key == deriveKey(master, salt)
             encrypted == CipherUpdate(key, iv, Utf8Encode(text))
             authTag == AuthTag(key, iv, encrypted)
         IN  Returned(<<salt, iv, authTag, encrypted>>)

decrypt(encryptedText, master) ==
  IF encryptedText = NoSecret \/ master = 0 \/ Len(encryptedText) # 4
    THEN Threw("Failed to decrypt data")
    ELSE LET salt == encryptedText[1]
             iv == encryptedText[2]
             authTag == encryptedText[3]
             encrypted == encryptedText[4]
             key == deriveKey(master, salt)
         IN  IF ~TagVerifies(authTag, AuthTag(key, iv, encrypted))
               THEN Threw("Failed to decrypt data")
               ELSE Returned(Utf8Decode(DecipherUpdate(key, iv, encrypted)))

\* text.split(':').length === 4
isEncrypted(text) == text # NoSecret /\ Len(text) = 4

\* Every value encrypt can return under some ENCRYPTION_SECRET.
EncryptedSecrets ==
  { encrypt(s, m, salt, iv).value :
      s \in Secrets, m \in Masters, salt \in Salts, iv \in Ivs }

\* ----------------------------------------------------- utils/aiHelper.js
AVAILABLE_MODELS ==
  [gemini |-> << "gemini-2.5-flash-lite",
                 "gemini-2.5-flash-preview-09-2025",
                 "gemini-2.5-flash-lite-preview-09-2025",
                 "gemini-2.0-flash",
                 "gemini-2.0-flash-lite" >>,
   grok   |-> << "llama-3.3-70b-versatile",
                 "llama-3.1-8b-instant",
                 "meta-llama/llama-4-scout-17b-16e-instruct",
                 "openai/gpt-oss-120b" >>]

\* getAvailableModels answering with the models of all providers.
getAvailableModelsAll(provider) == AVAILABLE_MODELS.gemini \o AVAILABLE_MODELS.grok

getAvailableModels(provider) ==
  IF provider \in DOMAIN AVAILABLE_MODELS THEN AVAILABLE_MODELS[provider] ELSE << >>

\* Array.prototype.includes
includes(list, x) == \E i \in 1..Len(list) : list[i] = x

\* What the provider does with one test or generation request.  The
\* provider is outside the program, so any reply can follow any request.
\*   ok            a non-empty text
\*   empty         a well-formed reply with an empty text
\*   unauthorized  the key is refused
\*   forbidden     403 for this key
\*   rate_limited  429 for an authorized key
\*   network       the request never reached the provider
AllReplies == {"ok", "empty", "unauthorized", "forbidden", "rate_limited", "network"}

\* The replies the provider gives in the specification Spec.
Replies == {"ok", "unauthorized", "network"}

\* The substrings validateApiKey looks for, as they occur in the message of
\* the error it catches.  Gemini's SDK error carries the HTTP status and the
\* reason API_KEY_INVALID; callGroqAPI rethrows the body's error message
\* ("Invalid API Key", capitalised) or the status text, without the status
\* code; an empty Gemini text throws 'Invalid API response'.
ErrorMarkers(provider, reply) ==
  IF provider = "grok"
    THEN {}
    ELSE CASE reply = "unauthorized" -> {"API_KEY_INVALID"}
           [] reply = "forbidden"    -> {"403"}
           [] OTHER                  -> {}

InvalidKeyMarkers == {"API_KEY_INVALID", "invalid", "401", "403"}

\* callGroqAPI returns data.choices[0].message.content without looking at
\* it; only the Gemini branch of validateApiKey rejects an empty text.
ProviderCallThrows(provider, reply) ==
  IF provider = "grok"
    THEN reply \notin {"ok", "empty"}
    ELSE reply # "ok"

\* validateApiKey with its errors swallowed.
validateApiKeySwallowed(apiKey, provider, model, reply) == Returned(TRUE)

\* validateApiKey throwing for a refused key only.
validateApiKeyRefusedOnly(apiKey, provider, model, reply) ==
  IF apiKey = 0
    THEN Threw("API key validation failed")
  ELSE IF ProviderCallThrows(provider, reply)
          /\ ErrorMarkers(provider, reply) \cap InvalidKeyMarkers # {}
    THEN Threw("Invalid API key")
    ELSE Returned(TRUE)

validateApiKey(apiKey, provider, model, reply) ==
  IF apiKey = 0
    THEN Threw("API key validation failed")
  ELSE IF ~ProviderCallThrows(provider, reply)
    THEN Returned(TRUE)
  ELSE IF ErrorMarkers(provider, reply) \cap InvalidKeyMarkers # {}
    THEN Threw("Invalid API key")
    ELSE Threw("API key validation failed")

\* The request validateApiKey sends, with the reply it got.
Call(apiKey, provider, model, reply) ==
  [apiKey |-> apiKey, provider |-> provider, model |-> model, reply |-> reply]

\* process.env.GEMINI_API_KEY / GROK_API_KEY when they are set.
EnvGeminiKey == 101
EnvGrokKey == 102

\* getAIConfig falling back to the gemini key for every provider.
aiHelperGetAIConfigGeminiOnly(userApiKey, provider, model, defaultGeminiKey, defaultGrokKey) ==
  LET apiKey == IF userApiKey # 0 THEN userApiKey ELSE defaultGeminiKey
  IN  IF apiKey = 0
        THEN Threw("No API key available")
        ELSE Returned([apiKey |-> apiKey, provider |-> provider, model |-> model])

\* getAIConfig of aiHelper.js: the user's key, else the process default.
aiHelperGetAIConfig(userApiKey, provider, model, defaultGeminiKey, defaultGrokKey) ==
  LET apiKey == IF userApiKey # 0 THEN userApiKey
                ELSE IF provider = "gemini" THEN defaultGeminiKey ELSE defaultGrokKey
  IN  IF apiKey = 0
        THEN Threw("No API key available")
        ELSE Returned([apiKey |-> apiKey, provider |-> provider, model |-> model])

\* ------------------------------------------------------- models/User.js
Users == {"alice", "bob"}

\* The users whose requests the specification Spec runs.
ActiveUsers == {"alice"}

Paths == {"aiProvider", "aiModel", "aiApiKey", "geminiApiKey"}

\* The paths a query loads when it names none: a select:false path is left out.
DefaultSelected == {"aiProvider", "aiModel"}

\* The credential fields of a user the current code has created.
NewUser ==
  [aiProvider |-> "gemini", aiModel |-> "gemini-2.5-flash-lite",
   aiApiKey |-> NoSecret, geminiApiKey |-> NoSecret]

\* A document written before aiProvider, aiModel and aiApiKey existed: only
\* the legacy key is stored.
LegacyUsers ==
  { [aiProvider |-> NULL, aiModel |-> NULL, aiApiKey |-> NoSecret, geminiApiKey |-> e] :
      e \in EncryptedSecrets }

\* x || d
OrElse(x, d) == IF x = NULL THEN d ELSE x

\* Mongoose applies the schema defaults to the paths a stored document lacks.
Hydrate(stored) ==
  [stored EXCEPT !.aiProvider = OrElse(stored.aiProvider, NewUser.aiProvider),
                 !.aiModel = OrElse(stored.aiModel, NewUser.aiModel)]

\* The value of a path the query did not load (undefined).
Unloaded(p) == IF p \in {"aiApiKey", "geminiApiKey"} THEN NoSecret ELSE NULL

\* User.findById(id).select(selected): the document, the paths it holds and
\* those of them that the stored document lacked and got their default.
FindById(stored, selected) ==
  [doc |-> [p \in Paths |-> IF p \in selected THEN Hydrate(stored)[p] ELSE Unloaded(p)],
   selected |-> selected,
   defaulted |-> {p \in selected \cap DefaultSelected : stored[p] = NULL}]

\* user.save() that has applied the update of the key only.
SaveKeyOnly(stored, loaded, assigned) ==
  [p \in Paths |->
     IF p \in DOMAIN assigned /\ p \in {"aiApiKey", "geminiApiKey"}
       THEN assigned[p]
       ELSE stored[p]]

\* user.save() after the assignments `assigned`: one update that sets the
\* modified paths (an assigned path is modified when it was not loaded or
\* its value changed) and the paths that got their default on load.
Save(stored, loaded, assigned) ==
  [p \in Paths |->
     IF p \in DOMAIN assigned /\ (p \notin loaded.selected \/ assigned[p] # loaded.doc[p])
       THEN assigned[p]
     ELSE IF p \in loaded.defaulted
       THEN loaded.doc[p]
       ELSE stored[p]]

\* ------------------------------------------------------------- the state
\* timesCooked[u] is sustainabilityStats.timesCooked of the stored document of u.
VARIABLES env, users, last, pending, timesCooked

vars == <<env, users, last, pending, timesCooked>>

Environments ==
  [ENCRYPTION_SECRET : {0} \cup Masters,
   GEMINI_API_KEY : {0, EnvGeminiKey},
   GROK_API_KEY : {0, EnvGrokKey}]

\* The request served last: handler, user, input, response, and the
\* requests it sent to the provider.
Done(op, u, req, status, body, calls) ==
  /\ last' = [op |-> op, user |-> u, req |-> req,
              res |-> [status |-> status, body |-> body], calls |-> calls]
  /\ UNCHANGED <<pending, timesCooked>>

Fail(message) == [success |-> FALSE, message |-> message]
FailWith(message, error) == [success |-> FALSE, message |-> message, error |-> error]
Success(message, data) == [success |-> TRUE, message |-> message, data |-> data]

NoRequest ==
  [op |-> "none", user |-> NULL, req |-> [none |-> TRUE],
   res |-> [status |-> 0, body |-> Fail("none")], calls |-> << >>]

\* The requests the server is serving: those whose handler is at an await.
\* The handlers of Spec and SpecUse are run from start to response.
Requests == {1, 2}
Idle == [pc |-> "idle"]
NoPending == [r \in Requests |-> Idle]

\* The credential handlers: accounts that are new or hold a legacy key.  The
\* handlers of profileController.js never read the fallback keys.
Init ==
  /\ env \in Environments
  /\ env.GEMINI_API_KEY = 0 /\ env.GROK_API_KEY = 0
  /\ users \in [Users -> {NewUser} \cup LegacyUsers]
  /\ \A u \in Users \ ActiveUsers : users[u] = NewUser
  /\ last = NoRequest
  /\ pending = NoPending
  /\ timesCooked = [u \in Users |-> 0]

\* ------------------------------------- controllers/profileController.js
\* GET /api/profile: the preferences and the statistics of the user, which
\* are no part of the credential state.
getProfile(u) ==
  LET user == FindById(users[u], DefaultSelected).doc
  IN  /\ Done("getProfile", u, [none |-> TRUE], 200,
              [success |-> TRUE,
               data |-> [profile |-> "profile",
                         sustainabilityStats |-> "sustainabilityStats"]], << >>)
      /\ UNCHANGED <<env, users>>

ApiKeyInputs == 0..MaxSecret
ProviderInputs == {NULL, "gemini", "grok", "openai"}
ModelInputs == {NULL, "gemini-2.0-flash", "llama-3.3-70b-versatile", "not-a-real-model"}

\* selectedModel with the gemini default for every provider.
selectedModelOfGeminiDefault(provider, model) ==
  IF model # NULL THEN model ELSE "gemini-2.5-flash-lite"

\* const selectedModel = model || (provider === 'gemini' ? ... : ...)
selectedModelOf(provider, model) ==
  IF model # NULL THEN model
  ELSE IF provider = "gemini" THEN "gemini-2.5-flash-lite" ELSE "llama-3.3-70b-versatile"

\* The bodies of POST /api/profile/ai-config: a missing key, an unknown
\* provider and an unsupported model are tried with one key, the supported
\* provider/model pairs with every key.
SetAIConfigRequests ==
  { r \in [apiKey : ApiKeyInputs, provider : ProviderInputs, model : ModelInputs] :
      /\ r.apiKey = 0 => r.provider = NULL
      /\ r.provider \in {NULL, "openai"} => r.model = NULL
      /\ r.provider = "gemini" => r.model # NULL
      /\ r.apiKey > 1 =>
           /\ r.provider # "openai"
           /\ r.model = NULL \/ includes(AVAILABLE_MODELS[OrElse(r.provider, "gemini")], r.model) }

\* setAIConfig storing the data part of the encrypted key only.
setAIConfigAssignDataOnly(encryptedKey, provider, selectedModel) ==
  [aiApiKey |-> << encryptedKey[4] >>, aiProvider |-> provider, aiModel |-> selectedModel]

\* setAIConfig without the assignment of user.aiModel.
setAIConfigAssignNoModel(encryptedKey, provider, selectedModel) ==
  [aiApiKey |-> encryptedKey, aiProvider |-> provider]

\* setAIConfig storing the key in the legacy field as well.
setAIConfigAssignLegacyToo(encryptedKey, provider, selectedModel) ==
  [aiApiKey |-> encryptedKey, aiProvider |-> provider, aiModel |-> selectedModel,
   geminiApiKey |-> encryptedKey]

\* The assignments of setAIConfig before user.save().
setAIConfigAssign(encryptedKey, provider, selectedModel) ==
  [aiApiKey |-> encryptedKey, aiProvider |-> provider, aiModel |-> selectedModel]

setAIConfig(u) ==
  \E req \in SetAIConfigRequests :
    LET apiKey == req.apiKey
        provider == OrElse(req.provider, "gemini")
        model == req.model
        selectedModel == selectedModelOf(provider, model)
        availableModels == getAvailableModels(provider)
    IN  IF apiKey = 0
          THEN /\ Done("setAIConfig", u, req, 400, Fail("Please provide a valid API key"), << >>)
               /\ UNCHANGED <<env, users>>
        ELSE IF provider \notin {"gemini", "grok"}
          THEN /\ Done("setAIConfig", u, req, 400,
                       Fail("Provider must be either gemini or grok"), << >>)
               /\ UNCHANGED <<env, users>>
        ELSE IF ~includes(availableModels, selectedModel)
          THEN /\ Done("setAIConfig", u, req, 400,
                       [success |-> FALSE, message |-> "Model is not available for provider",
                        data |-> [availableModels |-> availableModels]], << >>)
               /\ UNCHANGED <<env, users>>
        ELSE \E reply \in Replies :
          LET validation == validateApiKey(apiKey, provider, selectedModel, reply)
              calls == << Call(apiKey, provider, selectedModel, reply) >>
          IN  IF ~validation.ok
                THEN /\ Done("setAIConfig", u, req, 400, Fail(validation.error), calls)
                     /\ UNCHANGED <<env, users>>
                ELSE \E salt \in Salts, iv \in Ivs :
                  LET encryptedKey == encrypt(apiKey, env.ENCRYPTION_SECRET, salt, iv)
                      user == FindById(users[u], DefaultSelected)
                  IN  IF ~encryptedKey.ok
                        THEN /\ Done("setAIConfig", u, req, 500,
                                     FailWith("Failed to save AI configuration", encryptedKey.error),
                                     calls)
                             /\ UNCHANGED <<env, users>>
                        ELSE /\ users' = [users EXCEPT ![u] =
                                  Save(@, user, setAIConfigAssign(encryptedKey.value, provider,
                                                                  selectedModel))]
                             /\ Done("setAIConfig", u, req, 200,
                                     Success("AI configuration saved successfully",
                                             [hasApiKey |-> TRUE, provider |-> provider,
                                              model |-> selectedModel]), calls)
                             /\ UNCHANGED env

\* setApiKey storing null in both key fields.
setApiKeyAssignCleared(encryptedKey, provider, model) ==
  [aiApiKey |-> NoSecret, aiProvider |-> provider, aiModel |-> model,
   geminiApiKey |-> NoSecret]

\* setApiKey without the assignment of user.aiModel.
setApiKeyAssignNoModel(encryptedKey, provider, model) ==
  [aiApiKey |-> encryptedKey, aiProvider |-> provider, geminiApiKey |-> encryptedKey]

\* setApiKey storing the key in the legacy field only.
setApiKeyAssignLegacyOnly(encryptedKey, provider, model) ==
  [aiProvider |-> provider, aiModel |-> model, geminiApiKey |-> encryptedKey]

\* The assignments of the legacy setApiKey before user.save().
setApiKeyAssign(encryptedKey, provider, model) ==
  [aiApiKey |-> encryptedKey, aiProvider |-> provider, aiModel |-> model,
   geminiApiKey |-> encryptedKey]

setApiKey(u) ==
  \E apiKey \in ApiKeyInputs :
    LET provider == "gemini"
        model == "gemini-2.5-flash-lite"
        req == [apiKey |-> apiKey]
    IN  IF apiKey = 0
          THEN /\ Done("setApiKey", u, req, 400, Fail("Please provide a valid API key"), << >>)
               /\ UNCHANGED <<env, users>>
        ELSE \E reply \in Replies :
          LET validation == validateApiKey(apiKey, provider, model, reply)
              calls == << Call(apiKey, provider, model, reply) >>
          IN  IF ~validation.ok
                THEN /\ Done("setApiKey", u, req, 400, Fail(validation.error), calls)
                     /\ UNCHANGED <<env, users>>
                ELSE \E salt \in Salts, iv \in Ivs :
                  LET encryptedKey == encrypt(apiKey, env.ENCRYPTION_SECRET, salt, iv)
                      user == FindById(users[u], DefaultSelected)
                  IN  IF ~encryptedKey.ok
                        THEN /\ Done("setApiKey", u, req, 500,
                                     FailWith("Failed to save API key", encryptedKey.error), calls)
                             /\ UNCHANGED <<env, users>>
                        ELSE /\ users' = [users EXCEPT ![u] =
                                  Save(@, user, setApiKeyAssign(encryptedKey.value, provider, model))]
                             /\ Done("setApiKey", u, req, 200,
                                     Success("API key saved successfully", [hasApiKey |-> TRUE]),
                                     calls)
                             /\ UNCHANGED env

\* hasApiKey that looks at the current key only.
hasApiKeyCurrentOnly(user) == user.aiApiKey # NoSecret

\* !!(user.aiApiKey || user.geminiApiKey)
hasApiKey(user) == user.aiApiKey # NoSecret \/ user.geminiApiKey # NoSecret

\* getAIConfig answering with the stored key as well.
getAIConfigDataWithKey(user) ==
  [hasApiKey |-> hasApiKey(user),
   provider |-> OrElse(user.aiProvider, "gemini"),
   model |-> OrElse(user.aiModel, "gemini-2.5-flash-lite"),
   availableModels |-> [gemini |-> getAvailableModels("gemini"),
                        grok |-> getAvailableModels("grok")],
   apiKey |-> user.aiApiKey]

\* The data of GET /api/profile/ai-config for a loaded user.
getAIConfigData(user) ==
  [hasApiKey |-> hasApiKey(user),
   provider |-> OrElse(user.aiProvider, "gemini"),
   model |-> OrElse(user.aiModel, "gemini-2.5-flash-lite"),
   availableModels |-> [gemini |-> getAvailableModels("gemini"),
                        grok |-> getAvailableModels("grok")]]

getAIConfig(u) ==
  LET user == FindById(users[u], Paths).doc
  IN  /\ Done("getAIConfig", u, [none |-> TRUE], 200,
              [success |-> TRUE, data |-> getAIConfigData(user)], << >>)
      /\ UNCHANGED <<env, users>>

\* The data of the legacy GET /api/profile/api-key/status.
getApiKeyStatusData(user) == [hasApiKey |-> hasApiKey(user)]

getApiKeyStatus(u) ==
  LET user == FindById(users[u], {"aiApiKey", "geminiApiKey"}).doc
  IN  /\ Done("getApiKeyStatus", u, [none |-> TRUE], 200,
              [success |-> TRUE, data |-> getApiKeyStatusData(user)], << >>)
      /\ UNCHANGED <<env, users>>

\* deleteAIConfig without the reset of provider and model.
deleteAIConfigAssignKeysOnly == [aiApiKey |-> NoSecret, geminiApiKey |-> NoSecret]

\* The assignments of deleteAIConfig before user.save().
deleteAIConfigAssign ==
  [aiApiKey |-> NoSecret, geminiApiKey |-> NoSecret,
   aiProvider |-> "gemini", aiModel |-> "gemini-2.5-flash-lite"]

deleteAIConfig(u) ==
  LET user == FindById(users[u], DefaultSelected)
  IN  /\ users' = [users EXCEPT ![u] = Save(@, user, deleteAIConfigAssign)]
      /\ Done("deleteAIConfig", u, [none |-> TRUE], 200,
              Success("AI configuration removed successfully", [hasApiKey |-> FALSE]), << >>)
      /\ UNCHANGED env

\* deleteApiKey clearing the current key only.
deleteApiKeyAssignCurrentOnly == [aiApiKey |-> NoSecret]

\* The assignments of the legacy deleteApiKey before user.save().
deleteApiKeyAssign == [aiApiKey |-> NoSecret, geminiApiKey |-> NoSecret]

deleteApiKey(u) ==
  LET user == FindById(users[u], DefaultSelected)
  IN  /\ users' = [users EXCEPT ![u] = Save(@, user, deleteApiKeyAssign)]
      /\ Done("deleteApiKey", u, [none |-> TRUE], 200,
              Success("API key removed successfully", [hasApiKey |-> FALSE]), << >>)
      /\ UNCHANGED env

\* user.aiApiKey ? decrypt(user.aiApiKey) : decrypt(user.geminiApiKey)
storedKeyOf(user, master) ==
  IF user.aiApiKey # NoSecret THEN decrypt(user.aiApiKey, master)
                              ELSE decrypt(user.geminiApiKey, master)

\* The body of validateStoredAIConfig and of the legacy validateStoredApiKey,
\* which differ in the text and data of their responses only.
validateStored(op, u, okMessage, failMessage, withConfig) ==
  LET user == FindById(users[u], Paths).doc
  IN  /\ UNCHANGED <<env, users>>
      /\ IF user.aiApiKey = NoSecret /\ user.geminiApiKey = NoSecret
           THEN Done(op, u, [none |-> TRUE], 404, Fail("No API key configured"), << >>)
           ELSE LET decryptedKey == storedKeyOf(user, env.ENCRYPTION_SECRET)
                    provider == OrElse(user.aiProvider, "gemini")
                    model == OrElse(user.aiModel, "gemini-2.5-flash-lite")
                IN  IF ~decryptedKey.ok
                      THEN Done(op, u, [none |-> TRUE], 400,
                                FailWith(failMessage, decryptedKey.error), << >>)
                      ELSE \E reply \in Replies :
                        LET validation == validateApiKey(decryptedKey.value, provider, model, reply)
                            calls == << Call(decryptedKey.value, provider, model, reply) >>
                        IN  IF ~validation.ok
                              THEN Done(op, u, [none |-> TRUE], 400,
                                        FailWith(failMessage, validation.error), calls)
                              ELSE Done(op, u, [none |-> TRUE], 200,
                                        Success(okMessage,
                                                IF withConfig
                                                  THEN [isValid |-> TRUE, provider |-> provider,
                                                        model |-> model]
                                                  ELSE [isValid |-> TRUE]), calls)

validateStoredAIConfig(u) ==
  validateStored("validateStoredAIConfig", u, "AI configuration is valid",
                 "AI configuration validation failed", TRUE)

validateStoredApiKey(u) ==
  validateStored("validateStoredApiKey", u, "API key is valid",
                 "API key validation failed", FALSE)

\* ---------------- controllers/recipeController.js, ingredientController.js
\* userApiKeyOf trying the legacy key first.
userApiKeyOfLegacyFirst(user, master) ==
  IF user.geminiApiKey # NoSecret THEN decrypt(user.geminiApiKey, master)
  ELSE IF user.aiApiKey # NoSecret THEN decrypt(user.aiApiKey, master)
  ELSE Returned(0)

\* userApiKeyOf taking a key it cannot decrypt for no key.
userApiKeyOfSwallowed(user, master) ==
  LET stored == IF user.aiApiKey # NoSecret THEN user.aiApiKey ELSE user.geminiApiKey
  IN  IF stored # NoSecret /\ decrypt(stored, master).ok
        THEN decrypt(stored, master)
        ELSE Returned(0)

\* let userApiKey = null; if (user.aiApiKey) ... else if (user.geminiApiKey) ...
userApiKeyOf(user, master) ==
  IF user.aiApiKey # NoSecret THEN decrypt(user.aiApiKey, master)
  ELSE IF user.geminiApiKey # NoSecret THEN decrypt(user.geminiApiKey, master)
  ELSE Returned(0)

\* generateRecipe and detectIngredientsFromImage throw on every reply they
\* cannot parse a result from.
GenerationThrows(reply) == reply # "ok"

\* The requests of n calls of generateRecipe, the last of which got `reply`.
GenerationCalls(config, n, reply) ==
  [i \in 1..n |-> Call(config.apiKey, config.provider, config.model,
                       IF i < n THEN "ok" ELSE reply)]

\* The common body of generateRecipes (count recipes) and
\* generateSingleRecipe (one recipe).
generate(op, u, req, count, failMessage) ==
  LET user == FindById(users[u], Paths).doc
      userApiKey == userApiKeyOf(user, env.ENCRYPTION_SECRET)
      provider == OrElse(user.aiProvider, "gemini")
      model == OrElse(user.aiModel, "gemini-2.5-flash-lite")
  IN  /\ UNCHANGED <<env, users>>
      /\ IF ~userApiKey.ok
           THEN Done(op, u, req, 500, FailWith(failMessage, userApiKey.error), << >>)
           ELSE LET config == aiHelperGetAIConfig(userApiKey.value, provider, model,
                                                  env.GEMINI_API_KEY, env.GROK_API_KEY)
                IN  IF ~config.ok
                      THEN Done(op, u, req, 500, FailWith(failMessage, config.error), << >>)
                      ELSE \E n \in 1..count, reply \in Replies :
                        /\ ~GenerationThrows(reply) => n = count
                        /\ IF GenerationThrows(reply)
                             THEN Done(op, u, req, 500,
                                       FailWith(failMessage, "Failed to generate recipe"),
                                       GenerationCalls(config.value, n, reply))
                             ELSE Done(op, u, req, 200,
                                       Success("Generated recipes", [recipes |-> n]),
                                       GenerationCalls(config.value, n, reply))

generateRecipes(u) ==
  \E valid \in BOOLEAN, count \in 1..MaxCount :
    LET req == [valid |-> valid, count |-> count]
    IN  IF ~valid
          THEN /\ Done("generateRecipes", u, req, 400, Fail("Invalid request"), << >>)
               /\ UNCHANGED <<env, users>>
          ELSE generate("generateRecipes", u, req, count, "Failed to generate recipes")

generateSingleRecipe(u) ==
  \E valid \in BOOLEAN :
    LET req == [valid |-> valid]
    IN  IF ~valid
          THEN /\ Done("generateSingleRecipe", u, req, 400,
                       Fail("Please provide an array of ingredients"), << >>)
               /\ UNCHANGED <<env, users>>
          ELSE generate("generateSingleRecipe", u, req, 1, "Failed to generate recipe")

\* callGroqVision always asks llama-4-scout; Gemini is asked config.model.
VisionModel(config) ==
  IF config.provider = "grok" THEN "meta-llama/llama-4-scout-17b-16e-instruct"
                              ELSE config.model

detectIngredients(u) ==
  \E file \in BOOLEAN :
    LET req == [file |-> file]
        user == FindById(users[u], Paths).doc
        userApiKey == userApiKeyOf(user, env.ENCRYPTION_SECRET)
        provider == OrElse(user.aiProvider, "gemini")
        model == OrElse(user.aiModel, "gemini-2.5-flash-lite")
        failMessage == "Failed to detect ingredients"
    IN  /\ UNCHANGED <<env, users>>
        /\ IF ~file
             THEN Done("detectIngredients", u, req, 400, Fail("Please upload an image file"), << >>)
           ELSE IF ~userApiKey.ok
             THEN Done("detectIngredients", u, req, 500,
                       FailWith(failMessage, userApiKey.error), << >>)
           ELSE LET config == aiHelperGetAIConfig(userApiKey.value, provider, model,
                                                  env.GEMINI_API_KEY, env.GROK_API_KEY)
                IN  IF ~config.ok
                      THEN Done("detectIngredients", u, req, 500,
                                FailWith(failMessage, config.error), << >>)
                      ELSE \E reply \in Replies :
                        LET calls == << Call(config.value.apiKey, config.value.provider,
                                             VisionModel(config.value), reply) >>
                        IN  IF GenerationThrows(reply)
                              THEN Done("detectIngredients", u, req, 500,
                                        FailWith(failMessage, "Failed to detect ingredients"),
                                        calls)
                              ELSE Done("detectIngredients", u, req, 200,
                                        Success("Ingredients detected successfully",
                                                [ingredients |-> TRUE]), calls)

\* The records the credential handlers can leave in the store when the
\* process runs with ENCRYPTION_SECRET = master: the initial ones and those
\* written by any number of successful set or delete requests.
Assignments(master) ==
  LET keys == IF master = 0 THEN {}
              ELSE {encrypt(s, master, salt, iv).value : s \in Secrets, salt \in Salts, iv \in Ivs}
  IN  {deleteAIConfigAssign, deleteApiKeyAssign}
      \cup {setApiKeyAssign(k, "gemini", "gemini-2.5-flash-lite") : k \in keys}
      \cup UNION {{setAIConfigAssign(k, OrElse(r.provider, "gemini"),
                                     selectedModelOf(OrElse(r.provider, "gemini"), r.model)) :
                      k \in keys} :
                   r \in {q \in SetAIConfigRequests :
                            /\ q.apiKey # 0
                            /\ OrElse(q.provider, "gemini") \in {"gemini", "grok"}
                            /\ includes(getAvailableModels(OrElse(q.provider, "gemini")),
                                        selectedModelOf(OrElse(q.provider, "gemini"), q.model))}}

Written(records, master) ==
  records \cup {Save(r, FindById(r, DefaultSelected), a) :
                  r \in records, a \in Assignments(master)}

RECURSIVE Closure(_, _)
Closure(records, master) ==
  LET next == Written(records, master)
  IN  IF next = records THEN records ELSE Closure(next, master)

StoredWith == [master \in {0} \cup Masters |-> Closure({NewUser} \cup LegacyUsers, master)]

StoredRecords(master) == StoredWith[master]

\* The AI-calling handlers: any stored record, any environment.
InitUse ==
  /\ env \in Environments
  /\ users \in [Users -> StoredRecords(env.ENCRYPTION_SECRET)]
  /\ \A u \in Users \ ActiveUsers : users[u] = NewUser
  /\ last = NoRequest
  /\ pending = NoPending
  /\ timesCooked = [u \in Users |-> 0]

Next ==
  \E u \in ActiveUsers :
    \/ setAIConfig(u)
    \/ setApiKey(u)
    \/ getAIConfig(u)
    \/ getApiKeyStatus(u)
    \/ deleteAIConfig(u)
    \/ deleteApiKey(u)
    \/ validateStoredAIConfig(u)
    \/ validateStoredApiKey(u)

NextUse ==
  \E u \in ActiveUsers :
    \/ generateRecipes(u)
    \/ generateSingleRecipe(u)
    \/ detectIngredients(u)
    \/ validateStoredAIConfig(u)
    \/ validateStoredApiKey(u)

Spec == Init /\ [][Next]_vars

\* The credential handlers on accounts the current code has created.
InitFresh ==
  /\ env \in Environments
  /\ env.GEMINI_API_KEY = 0 /\ env.GROK_API_KEY = 0
  /\ users = [u \in Users |-> NewUser]
  /\ last = NoRequest
  /\ pending = NoPending
  /\ timesCooked = [u \in Users |-> 0]

SpecFresh == InitFresh /\ [][Next]_vars

SpecUse == InitUse /\ [][NextUse]_vars

\* ------------------------------------------------- two runs side by side
\* The requests of alice are one run of the credential handlers and those
\* of bob a second run that differs from it in the keys only: bob repeats
\* each request of alice with another key, the provider gives him the same
\* reply and randomBytes the same salt.
OtherSecret(s) == IF s = 0 THEN 0 ELSE (s % MaxSecret) + 1

LowRequest(req) ==
  IF "apiKey" \in DOMAIN req THEN [req EXCEPT !.apiKey = IF @ = 0 THEN 0 ELSE 1] ELSE req

SameReplies(a, b) ==
  Len(a) = Len(b) => \A i \in 1..Len(a) : a[i].reply = b[i].reply

SameSalt(a, b) ==
  /\ (a.aiApiKey # NoSecret /\ b.aiApiKey # NoSecret) => a.aiApiKey[1] = b.aiApiKey[1]
  /\ (a.geminiApiKey # NoSecret /\ b.geminiApiKey # NoSecret)
       => a.geminiApiKey[1] = b.geminiApiKey[1]

InitPair ==
  /\ env \in Environments
  /\ env.ENCRYPTION_SECRET \in {0, 1}
  /\ env.GEMINI_API_KEY = 0 /\ env.GROK_API_KEY = 0
  /\ \/ users = [u \in Users |-> NewUser]
     \/ \E m \in Masters, iv \in Ivs, s \in Secrets :
          users = [u \in Users |->
                     [aiProvider |-> NULL, aiModel |-> NULL, aiApiKey |-> NoSecret,
                      geminiApiKey |-> encrypt(IF u = "alice" THEN s ELSE OtherSecret(s),
                                               m, 0, iv).value]]
  /\ last = NoRequest
  /\ pending = NoPending
  /\ timesCooked = [u \in Users |-> 0]

CredentialRequest(u) ==
  \/ setAIConfig(u)
  \/ setApiKey(u)
  \/ getAIConfig(u)
  \/ getApiKeyStatus(u)
  \/ deleteAIConfig(u)
  \/ deleteApiKey(u)
  \/ validateStoredAIConfig(u)
  \/ validateStoredApiKey(u)
  \/ getProfile(u)

FirstRun ==
  /\ last.user # "alice"
  /\ CredentialRequest("alice")

SecondRun ==
  /\ last.user = "alice"
  /\ CredentialRequest("bob")
  /\ last'.op = last.op
  /\ LowRequest(last'.req) = LowRequest(last.req)
  /\ "apiKey" \in DOMAIN last.req => last'.req.apiKey = OtherSecret(last.req.apiKey)
  /\ SameReplies(last'.calls, last.calls)
  /\ users'["bob"] # users["bob"] => SameSalt(users'["bob"], users'["alice"])

NextPair == FirstRun \/ SecondRun

SpecPair == InitPair /\ [][NextPair]_vars

\* ------------------------------------------- handlers that run concurrently
\* An async handler gives up the event loop at each await: at the call of
\* the provider (validateApiKey), at User.findById and at user.save().  The
\* database serves each findById and each save (one update of one document)
\* at one instant.  A request that is being served is in pending, with the
\* values its handler holds; its response is kept there when it is done.
Respond(status, body) == [status |-> status, body |-> body]

\* The bodies of the concurrent POST /api/profile/ai-config requests: those
\* that pass the input checks and name no model.
ConcurrentSetRequests ==
  { r \in SetAIConfigRequests :
      r.apiKey # 0 /\ r.provider \in {NULL, "grok"} /\ r.model = NULL }

\* setAIConfig up to `await validateApiKey(apiKey, provider, selectedModel)`.
setAIConfigStart(r, u) ==
  /\ pending[r] = Idle
  /\ \E req \in ConcurrentSetRequests :
       LET provider == OrElse(req.provider, "gemini")
       IN  pending' = [pending EXCEPT ![r] =
             [pc |-> "validate", op |-> "setAIConfig", user |-> u, req |-> req,
              apiKey |-> req.apiKey, provider |-> provider,
              model |-> selectedModelOf(provider, req.model)]]
  /\ UNCHANGED <<env, users, last, timesCooked>>

\* validateStoredAIConfig up to `await validateApiKey(decryptedKey, ...)`:
\* the document is read, the stored key decrypted.
validateStoredAIConfigStart(r, u) ==
  LET user == FindById(users[u], Paths).doc
      decryptedKey == storedKeyOf(user, env.ENCRYPTION_SECRET)
      op == "validateStoredAIConfig"
      req == [none |-> TRUE]
  IN  /\ pending[r] = Idle
      /\ UNCHANGED <<env, users, last, timesCooked>>
      /\ IF user.aiApiKey = NoSecret /\ user.geminiApiKey = NoSecret
           THEN pending' = [pending EXCEPT ![r] =
                  [pc |-> "done", op |-> op, user |-> u, req |-> req, saved |-> FALSE,
                   res |-> Respond(404, Fail("No API key configured"))]]
         ELSE IF ~decryptedKey.ok
           THEN pending' = [pending EXCEPT ![r] =
                  [pc |-> "done", op |-> op, user |-> u, req |-> req, saved |-> FALSE,
                   res |-> Respond(400, FailWith("AI configuration validation failed",
                                                 decryptedKey.error))]]
           ELSE pending' = [pending EXCEPT ![r] =
                  [pc |-> "validate", op |-> op, user |-> u, req |-> req,
                   apiKey |-> decryptedKey.value,
                   provider |-> OrElse(user.aiProvider, "gemini"),
                   model |-> OrElse(user.aiModel, "gemini-2.5-flash-lite")]]

\* The provider answers the test request and validateApiKey returns or
\* throws.  setAIConfig goes on to encrypt and to `await User.findById`.
\* The reply is kept with the request.
providerAnswers(r) ==
  /\ pending[r].pc = "validate"
  /\ UNCHANGED <<env, users, last, timesCooked>>
  /\ \E reply \in AllReplies :
       LET p == pending[r]
           validation == validateApiKey(p.apiKey, p.provider, p.model, reply)
           done(status, body) ==
             [pc |-> "done", op |-> p.op, user |-> p.user, req |-> p.req, saved |-> FALSE,
              reply |-> reply, res |-> Respond(status, body)]
       IN  IF p.op = "validateStoredAIConfig"
             THEN pending' = [pending EXCEPT ![r] =
                    IF validation.ok
                      THEN done(200, Success("AI configuration is valid",
                                             [isValid |-> TRUE, provider |-> p.provider,
                                              model |-> p.model]))
                      ELSE done(400, FailWith("AI configuration validation failed",
                                              validation.error))]
           ELSE IF ~validation.ok
             THEN pending' = [pending EXCEPT ![r] = done(400, Fail(validation.error))]
           ELSE \E salt \in Salts, iv \in Ivs :
             LET encryptedKey == encrypt(p.apiKey, env.ENCRYPTION_SECRET, salt, iv)
             IN  pending' = [pending EXCEPT ![r] =
                   IF ~encryptedKey.ok
                     THEN done(500, FailWith("Failed to save AI configuration",
                                             encryptedKey.error))
                     ELSE [pc |-> "load", op |-> p.op, user |-> p.user, req |-> p.req,
                           provider |-> p.provider, model |-> p.model, reply |-> reply,
                           encryptedKey |-> encryptedKey.value]]

\* User.findById answers setAIConfig, which assigns the three fields and
\* calls user.save().
findByIdReturns(r) ==
  /\ pending[r].pc = "load"
  /\ UNCHANGED <<env, users, last, timesCooked>>
  /\ LET p == pending[r]
     IN  pending' = [pending EXCEPT ![r] =
           [pc |-> "save", op |-> p.op, user |-> p.user, req |-> p.req,
            provider |-> p.provider, model |-> p.model, encryptedKey |-> p.encryptedKey,
            loaded |-> FindById(users[p.user], DefaultSelected),
            assigned |-> setAIConfigAssign(p.encryptedKey, p.provider, p.model)]]

\* deleteAIConfig up to `await user.save()`: the document is read and the
\* four fields are assigned.
deleteAIConfigStart(r, u) ==
  /\ pending[r] = Idle
  /\ UNCHANGED <<env, users, last, timesCooked>>
  /\ pending' = [pending EXCEPT ![r] =
       [pc |-> "save", op |-> "deleteAIConfig", user |-> u, req |-> [none |-> TRUE],
        provider |-> "gemini", model |-> "gemini-2.5-flash-lite", encryptedKey |-> NoSecret,
        loaded |-> FindById(users[u], DefaultSelected),
        assigned |-> deleteAIConfigAssign]]

\* user.save() updating the documents of all users.
saveReturnsEveryone(r) ==
  /\ pending[r].pc = "save"
  /\ UNCHANGED <<env, last, timesCooked>>
  /\ LET p == pending[r]
     IN  /\ users' = [v \in Users |-> Save(users[v], p.loaded, p.assigned)]
         /\ pending' = [pending EXCEPT ![r] =
               [pc |-> "done", op |-> p.op, user |-> p.user, req |-> p.req, saved |-> TRUE,
                provider |-> p.provider, model |-> p.model, encryptedKey |-> p.encryptedKey,
                loaded |-> p.loaded,
                res |-> Respond(200, Success("saved", [hasApiKey |-> TRUE]))]]

\* user.save() is applied and the handler responds.
saveReturns(r) ==
  /\ pending[r].pc = "save"
  /\ UNCHANGED <<env, last, timesCooked>>
  /\ LET p == pending[r]
     IN  /\ users' = [users EXCEPT ![p.user] = Save(@, p.loaded, p.assigned)]
         /\ pending' = [pending EXCEPT ![r] =
               [pc |-> "done", op |-> p.op, user |-> p.user, req |-> p.req, saved |-> TRUE,
                provider |-> p.provider, model |-> p.model, encryptedKey |-> p.encryptedKey,
                loaded |-> p.loaded,
                res |-> IF p.op = "setAIConfig"
                          THEN Respond(200, Success("AI configuration saved successfully",
                                                    [hasApiKey |-> TRUE, provider |-> p.provider,
                                                     model |-> p.model]))
                          ELSE Respond(200, Success("AI configuration removed successfully",
                                                    [hasApiKey |-> FALSE]))]]

InitConcurrent ==
  /\ env \in Environments
  /\ env.ENCRYPTION_SECRET \in Masters
  /\ env.GEMINI_API_KEY = 0 /\ env.GROK_API_KEY = 0
  /\ users \in [Users -> {NewUser} \cup LegacyUsers]
  /\ \A u \in Users \ ActiveUsers : users[u] = NewUser
  /\ last = NoRequest
  /\ pending = NoPending
  /\ timesCooked = [u \in Users |-> 0]

NextConcurrent ==
  \/ \E r \in Requests, u \in ActiveUsers :
       \/ setAIConfigStart(r, u)
       \/ deleteAIConfigStart(r, u)
       \/ validateStoredAIConfigStart(r, u)
  \/ \E r \in Requests :
       \/ providerAnswers(r)
       \/ findByIdReturns(r)
       \/ saveReturns(r)
  \/ \E u \in ActiveUsers : getAIConfig(u)

\* The database answers every query; nothing makes the provider answer.
SpecConcurrent ==
  /\ InitConcurrent
  /\ [][NextConcurrent]_vars
  /\ \A r \in Requests : WF_vars(findByIdReturns(r)) /\ WF_vars(saveReturns(r))

\* ------------------------------------------------ the requests of two users
\* Both users send requests, which the server serves concurrently.  Each
\* account is new or holds one legacy key of the running process.
InitUsers ==
  /\ env \in Environments
  /\ env.ENCRYPTION_SECRET = 1
  /\ env.GEMINI_API_KEY = 0 /\ env.GROK_API_KEY = 0
  /\ users \in [Users -> {NewUser} \cup
                          {l \in LegacyUsers :
                             l.geminiApiKey = encrypt(1, env.ENCRYPTION_SECRET, 0, 0).value}]
  /\ last = NoRequest
  /\ pending = NoPending
  /\ timesCooked = [u \in Users |-> 0]

NextUsers ==
  \/ \E r \in Requests, u \in Users :
       \/ setAIConfigStart(r, u)
       \/ deleteAIConfigStart(r, u)
       \/ validateStoredAIConfigStart(r, u)
  \/ \E r \in Requests :
       \/ providerAnswers(r)
       \/ findByIdReturns(r)
       \/ saveReturns(r)
  \/ \E u \in Users : getAIConfig(u)

SpecUsers == InitUsers /\ [][NextUsers]_vars

\* ------------------------------------- the other writers of the document
\* updateProfile, updateAccount and saveToHistory load the user with
\* User.findById(req.user.id), assign fields that are no credential fields
\* and call user.save().  A request between its load and its save holds the
\* loaded document and the loaded sustainabilityStats.timesCooked.
Loading(r, u, op, req) ==
  pending' = [pending EXCEPT ![r] =
    [pc |-> "saveDocument", op |-> op, user |-> u, req |-> req,
     loaded |-> FindById(users[u], DefaultSelected), cooked |-> timesCooked[u]]]

\* PUT /api/profile up to `await user.save()`.
updateProfileStart(r, u) ==
  /\ pending[r] = Idle
  /\ UNCHANGED <<env, users, last, timesCooked>>
  /\ Loading(r, u, "updateProfile", [none |-> TRUE])

\* PUT /api/profile/account up to `await user.save()`, or to the response
\* that the new email is in use.
updateAccountStart(r, u) ==
  /\ pending[r] = Idle
  /\ UNCHANGED <<env, users, last, timesCooked>>
  /\ \E emailExists \in BOOLEAN :
       IF emailExists
         THEN pending' = [pending EXCEPT ![r] =
                [pc |-> "done", op |-> "updateAccount", user |-> u,
                 req |-> [emailExists |-> TRUE], saved |-> FALSE,
                 res |-> Respond(400, Fail("Email already in use"))]]
         ELSE Loading(r, u, "updateAccount", [emailExists |-> FALSE])

\* POST /api/history up to the `await user.save()` of updateUserStats: the
\* history entry is created, the user loaded and the statistics added to.
saveToHistory(r, u) ==
  /\ pending[r] = Idle
  /\ UNCHANGED <<env, users, last, timesCooked>>
  /\ \E valid \in BOOLEAN :
       IF ~valid
         THEN pending' = [pending EXCEPT ![r] =
                [pc |-> "done", op |-> "saveToHistory", user |-> u,
                 req |-> [valid |-> FALSE], saved |-> FALSE,
                 res |-> Respond(400, Fail("Please provide recipeName, ingredients, and instructions"))]]
         ELSE Loading(r, u, "saveToHistory", [valid |-> TRUE])

\* user.sustainabilityStats.timesCooked += 1 on the loaded document; save()
\* sets the path to the new value.
updateUserStats(stored, loaded) == loaded + 1

\* user.save() of these handlers is applied and the handler responds.
documentSaveReturns(r) ==
  /\ pending[r].pc = "saveDocument"
  /\ UNCHANGED <<env, last>>
  /\ LET p == pending[r]
     IN  /\ users' = [users EXCEPT ![p.user] = Save(@, p.loaded, << >>)]
         /\ timesCooked' =
               IF p.op = "saveToHistory"
                 THEN [timesCooked EXCEPT ![p.user] = updateUserStats(@, p.cooked)]
                 ELSE timesCooked
         /\ pending' = [pending EXCEPT ![r] =
               [pc |-> "done", op |-> p.op, user |-> p.user, req |-> p.req, saved |-> TRUE,
                loaded |-> p.loaded,
                res |-> CASE p.op = "saveToHistory" ->
                               Respond(201, Success("Recipe saved to history",
                                                    [timesCooked |-> updateUserStats(timesCooked[p.user], p.cooked)]))
                          [] p.op = "updateProfile" ->
                               Respond(200, Success("Profile updated successfully",
                                                    [profile |-> "profile"]))
                          [] OTHER ->
                               Respond(200, Success("Account updated successfully",
                                                    [user |-> p.user]))]]

\* The account is new or holds one legacy key of the running process.
InitDocument ==
  /\ env \in Environments
  /\ env.ENCRYPTION_SECRET = 1
  /\ env.GEMINI_API_KEY = 0 /\ env.GROK_API_KEY = 0
  /\ users \in [Users -> {NewUser} \cup
                          {l \in LegacyUsers :
                             l.geminiApiKey = encrypt(1, env.ENCRYPTION_SECRET, 0, 0).value}]
  /\ \A u \in Users \ ActiveUsers : users[u] = NewUser
  /\ last = NoRequest
  /\ pending = NoPending
  /\ timesCooked = [u \in Users |-> 0]

NextDocument ==
  \/ \E r \in Requests, u \in ActiveUsers :
       \/ updateProfileStart(r, u)
       \/ updateAccountStart(r, u)
       \/ saveToHistory(r, u)
       \/ setAIConfigStart(r, u)
       \/ deleteAIConfigStart(r, u)
  \/ \E r \in Requests :
       \/ providerAnswers(r)
       \/ findByIdReturns(r)
       \/ saveReturns(r)
       \/ documentSaveReturns(r)

SpecDocument == InitDocument /\ [][NextDocument]_vars

\* ------------------------------------------------ the utilities by themselves
\* What can become of the string encrypt returned before it is decrypted.
Tamperings ==
  {"none", "data", "tag", "tagHalf", "tagCut", "salt", "three", "five", "one", "null"}

Tamper(e, t) ==
  CASE t = "data"    -> [e EXCEPT ![4] = (@ + 1) % Radix]
    [] t = "tag"     -> [e EXCEPT ![3] = << @[1] + 1, @[2] + 1 >>]
    [] t = "tagHalf" -> [e EXCEPT ![3] = << @[1], @[2] + 1 >>]
    [] t = "tagCut"  -> [e EXCEPT ![3] = << @[1] >>]
    [] t = "salt"    -> [e EXCEPT ![1] = (@ + 1) % (MaxSalt + 1)]
    [] t = "three"   -> SubSeq(e, 1, 3)
    [] t = "five"    -> e \o << 0 >>
    [] t = "one"     -> << e[4] >>
    [] t = "null"    -> NoSecret
    [] OTHER         -> e

\* encrypt called with `text`; randomBytes gives salt and iv.  The call
\* before it, if that was an encrypt too, is kept for comparison.
callEncrypt ==
  /\ \E text \in {0} \cup Texts, salt \in Salts, iv \in Ivs :
       last' = [op |-> "encrypt", user |-> NULL,
                req |-> [text |-> text, master |-> env.ENCRYPTION_SECRET],
                res |-> encrypt(text, env.ENCRYPTION_SECRET, salt, iv), calls |-> << >>,
                random |-> [salt |-> salt, iv |-> iv],
                previous |-> IF last.op = "encrypt"
                               THEN << [req |-> last.req, res |-> last.res,
                                        random |-> last.random] >>
                               ELSE << >>]
  /\ UNCHANGED <<env, users, pending, timesCooked>>

\* The process is restarted with another ENCRYPTION_SECRET, or with none.
setEncryptionSecret ==
  /\ last.op = "encrypt"
  /\ \E m \in {0} \cup Masters :
       env' = [env EXCEPT !.ENCRYPTION_SECRET = m]
  /\ UNCHANGED <<users, last, pending, timesCooked>>

\* decrypt of what encrypt returned last, as it is or changed.
callDecrypt ==
  /\ last.op = "encrypt"
  /\ last.res.ok
  /\ \E t \in Tamperings :
       last' = [op |-> "decrypt", user |-> NULL,
                req |-> [encryptedText |-> Tamper(last.res.value, t), tampering |-> t,
                         original |-> last.res.value, text |-> last.req.text,
                         master |-> last.req.master],
                res |-> decrypt(Tamper(last.res.value, t), env.ENCRYPTION_SECRET),
                calls |-> << >>]
  /\ UNCHANGED <<env, users, pending, timesCooked>>

callValidateApiKey ==
  /\ \E apiKey \in ApiKeyInputs, provider \in DOMAIN AVAILABLE_MODELS, reply \in AllReplies :
       LET model == AVAILABLE_MODELS[provider][1]
       IN  last' = [op |-> "validateApiKey", user |-> NULL,
                    req |-> [apiKey |-> apiKey, provider |-> provider, model |-> model],
                    res |-> validateApiKey(apiKey, provider, model, reply),
                    calls |-> IF apiKey = 0 THEN << >>
                                            ELSE << Call(apiKey, provider, model, reply) >>]
  /\ UNCHANGED <<env, users, pending, timesCooked>>

InitUtils ==
  /\ env \in Environments
  /\ env.GEMINI_API_KEY = 0 /\ env.GROK_API_KEY = 0
  /\ users = [u \in Users |-> NewUser]
  /\ last = NoRequest
  /\ pending = NoPending
  /\ timesCooked = [u \in Users |-> 0]

NextUtils ==
  \/ callEncrypt
  \/ setEncryptionSecret
  \/ callDecrypt
  \/ callValidateApiKey

SpecUtils == InitUtils /\ [][NextUtils]_vars

\* Every record Spec reaches is one of StoredRecords.
StoredRecordsCoverSpec == \A u \in Users : users[u] \in StoredRecords(env.ENCRYPTION_SECRET)

\* ===================================================== verified properties
SetOps == {"setAIConfig", "setApiKey"}
DeleteOps == {"deleteAIConfig", "deleteApiKey"}
StatusOps == {"getAIConfig", "getApiKeyStatus"}
ValidateOps == {"validateStoredAIConfig", "validateStoredApiKey"}
GenerateOps == {"generateRecipes", "generateSingleRecipe", "detectIngredients"}

\* The provider answered the test prompt / refused the key.
Answered(call) == call.reply \in {"ok", "empty"}
Refused(call) == call.reply \in {"unauthorized", "forbidden"}

\* The provider and model a set request asks for.
RequestedProvider(op, req) ==
  IF op = "setApiKey" THEN "gemini" ELSE OrElse(req.provider, "gemini")
RequestedModel(op, req) ==
  IF op = "setApiKey" THEN "gemini-2.5-flash-lite"
  ELSE IF req.model # NULL THEN req.model
  ELSE AVAILABLE_MODELS[OrElse(req.provider, "gemini")][1]

\* What the status endpoint shows of a stored record, and the key the
\* AI-calling handlers resolve from it.
StatusOf(stored) ==
  LET data == getAIConfigData(FindById(stored, Paths).doc)
  IN  [configured |-> data.hasApiKey, provider |-> data.provider, model |-> data.model]
ResolvedOf(stored, master) == userApiKeyOf(FindById(stored, Paths).doc, master)

CurrentPresent(stored) == stored.aiApiKey # NoSecret
LegacyPresent(stored) == stored.geminiApiKey # NoSecret
Configured(stored) == CurrentPresent(stored) \/ LegacyPresent(stored)

\* C1: setAIConfig and setApiKey change the record only in a call whose one
\* validation request carried the request's key, the stored provider and the
\* stored model and was answered by the provider, and the stored key decrypts
\* to that key; a call whose key the provider refuses fails with 400, changes
\* no field and leaves the status as it was.
C1_PersistOnlyValidated ==
  [][\A u \in Users :
       (last'.op \in SetOps /\ last'.user = u) =>
         /\ users'[u] # users[u] =>
              /\ Len(last'.calls) = 1
              /\ Answered(last'.calls[1])
              /\ last'.calls[1].apiKey = last'.req.apiKey
              /\ users'[u].aiProvider = last'.calls[1].provider
              /\ users'[u].aiModel = last'.calls[1].model
              /\ decrypt(users'[u].aiApiKey, env.ENCRYPTION_SECRET)
                   = Returned(last'.calls[1].apiKey)
         /\ (last'.calls # << >> /\ Refused(last'.calls[1])) =>
              /\ last'.res.status = 400
              /\ users'[u] = users[u]
              /\ StatusOf(users'[u]) = StatusOf(users[u])]_vars

\* C1 witness: a set request on a configured record was refused by the provider.
C1_Witness ==
  /\ last.op \in SetOps
  /\ last.calls # << >>
  /\ Refused(last.calls[1])
  /\ last.res.status = 400
  /\ CurrentPresent(users[last.user])

\* C2: setAIConfig with a key, a known provider and a model outside that
\* provider's list answers 400 "model is not available", sends nothing to the
\* provider and leaves every record unchanged.
C2_UnsupportedModel ==
  [][(/\ last'.op = "setAIConfig"
      /\ last'.req.apiKey # 0
      /\ OrElse(last'.req.provider, "gemini") \in DOMAIN AVAILABLE_MODELS
      /\ last'.req.model # NULL
      /\ ~includes(AVAILABLE_MODELS[OrElse(last'.req.provider, "gemini")], last'.req.model))
     => /\ last'.res.status = 400
        /\ last'.res.body.message = "Model is not available for provider"
        /\ last'.calls = << >>
        /\ users' = users]_vars

\* C2 witness: a model of another provider was asked for on a configured record.
C2_Witness ==
  /\ last.op = "setAIConfig"
  /\ last.req.apiKey # 0
  /\ last.req.provider = "gemini"
  /\ last.req.model = "llama-3.3-70b-versatile"
  /\ last.res.status = 400
  /\ CurrentPresent(users[last.user])

\* C3: right after a successful set the status is {configured, the requested
\* provider, the requested model} and the resolved key is the plaintext of
\* the request; every step that is neither a successful set nor a delete of
\* that user keeps both.
C3_SetThenUse ==
  [][\A u \in Users :
       /\ (last'.op \in SetOps /\ last'.user = u /\ last'.res.status = 200) =>
            /\ StatusOf(users'[u]) =
                 [configured |-> TRUE,
                  provider |-> RequestedProvider(last'.op, last'.req),
                  model |-> RequestedModel(last'.op, last'.req)]
            /\ ResolvedOf(users'[u], env.ENCRYPTION_SECRET) = Returned(last'.req.apiKey)
       /\ ~(last'.user = u /\ (\/ last'.op \in SetOps /\ last'.res.status = 200
                               \/ last'.op \in DeleteOps)) =>
            \/ users'[u] = users[u]
            \/ /\ StatusOf(users'[u]) = StatusOf(users[u])
               /\ ResolvedOf(users'[u], env.ENCRYPTION_SECRET)
                    = ResolvedOf(users[u], env.ENCRYPTION_SECRET)]_vars

\* C3 witness: grok was configured over a record that holds a legacy key of
\* another plaintext.
C3_Witness ==
  /\ last.op = "setAIConfig"
  /\ last.res.status = 200
  /\ last.req.provider = "grok"
  /\ LegacyPresent(users[last.user])
  /\ decrypt(users[last.user].geminiApiKey, env.ENCRYPTION_SECRET).ok
  /\ decrypt(users[last.user].geminiApiKey, env.ENCRYPTION_SECRET).value # last.req.apiKey

\* C4: both status endpoints agree on hasApiKey for every stored record, and
\* the flag a status request answered is (current key present) or (legacy key
\* present).
C4_ConfiguredFlag ==
  /\ \A u \in Users :
       getAIConfigData(FindById(users[u], Paths).doc).hasApiKey
         = getApiKeyStatusData(FindById(users[u], {"aiApiKey", "geminiApiKey"}).doc).hasApiKey
  /\ last.op \in StatusOps =>
       last.res.body.data.hasApiKey
         = (CurrentPresent(users[last.user]) \/ LegacyPresent(users[last.user]))

\* C4 witness: the legacy status endpoint answered for a record that holds
\* the legacy key only.
C4_Witness ==
  /\ last.op = "getApiKeyStatus"
  /\ ~CurrentPresent(users[last.user])
  /\ LegacyPresent(users[last.user])
  /\ last.res.body.data.hasApiKey

\* C5: a record becomes configured only in a successful set of its user and
\* unconfigured only in a delete of its user, a successful set leaves a
\* configured record configured, and the status and validate handlers change
\* no record.
C5_Transitions ==
  [][\A u \in Users :
       /\ (~Configured(users[u]) /\ Configured(users'[u])) =>
            last'.op \in SetOps /\ last'.user = u /\ last'.res.status = 200
       /\ (Configured(users[u]) /\ ~Configured(users'[u])) =>
            last'.op \in DeleteOps /\ last'.user = u
       /\ (/\ Configured(users[u])
           /\ last'.op \in SetOps /\ last'.user = u /\ last'.res.status = 200) =>
            Configured(users'[u])
       /\ last'.op \in StatusOps \cup ValidateOps => users' = users]_vars

\* C5 witness: the stored key of a configured record failed its validation.
C5_Witness ==
  /\ last.op \in ValidateOps
  /\ last.res.status = 400
  /\ last.calls # << >>
  /\ Configured(users[last.user])

\* C6: whenever a record holds a key, the model a read of it sees is in the
\* list of the provider that read sees.
C6_ModelOfProvider ==
  \A u \in Users :
    Configured(users[u]) =>
      /\ Hydrate(users[u]).aiProvider \in DOMAIN AVAILABLE_MODELS
      /\ includes(AVAILABLE_MODELS[Hydrate(users[u]).aiProvider], Hydrate(users[u]).aiModel)

\* C6 witness: the legacy set endpoint wrote a record (it stores gemini's
\* default model whatever the record held before).
C6_Witness ==
  /\ last.op = "setApiKey"
  /\ last.res.status = 200
  /\ CurrentPresent(users[last.user])
  /\ LegacyPresent(users[last.user])

\* C7: deleteAIConfig answers 200 and leaves no current key, no legacy key,
\* provider gemini and model gemini-2.5-flash-lite; on a record that is
\* already so it changes nothing.
C7_DeleteClears ==
  [][\A u \in Users :
       (last'.op = "deleteAIConfig" /\ last'.user = u) =>
         /\ last'.res.status = 200
         /\ users'[u] = [aiProvider |-> "gemini", aiModel |-> "gemini-2.5-flash-lite",
                         aiApiKey |-> NoSecret, geminiApiKey |-> NoSecret]
         /\ users[u] = [aiProvider |-> "gemini", aiModel |-> "gemini-2.5-flash-lite",
                        aiApiKey |-> NoSecret, geminiApiKey |-> NoSecret]
              => users'[u] = users[u]]_vars

\* C7 witness: a deleteAIConfig request was served.
C7_Witness ==
  /\ last.op = "deleteAIConfig"
  /\ last.res.status = 200
  /\ ~Configured(users[last.user])

\* C8: a record with the legacy key only shows as configured with provider
\* gemini and model gemini-2.5-flash-lite, and a validate-stored request on
\* it sends the decrypted legacy key to gemini with that model.
C8_LegacyFallback ==
  \A u \in Users :
    (~CurrentPresent(users[u]) /\ LegacyPresent(users[u])) =>
      /\ StatusOf(users[u]) =
           [configured |-> TRUE, provider |-> "gemini", model |-> "gemini-2.5-flash-lite"]
      /\ (last.op \in ValidateOps /\ last.user = u) =>
           IF decrypt(users[u].geminiApiKey, env.ENCRYPTION_SECRET).ok
             THEN /\ Len(last.calls) = 1
                  /\ Returned(last.calls[1].apiKey)
                       = decrypt(users[u].geminiApiKey, env.ENCRYPTION_SECRET)
                  /\ last.calls[1].provider = "gemini"
                  /\ last.calls[1].model = "gemini-2.5-flash-lite"
             ELSE last.calls = << >>

\* C8 witness: the legacy key of a legacy-only record was validated.
C8_Witness ==
  /\ last.op = "validateStoredAIConfig"
  /\ last.res.status = 200
  /\ ~CurrentPresent(users[last.user])
  /\ LegacyPresent(users[last.user])

\* The request passed the input checks that precede the use of the key.
ReachesKey ==
  \/ last.op \in ValidateOps
  \/ last.op \in {"generateRecipes", "generateSingleRecipe"} /\ last.req.valid
  \/ last.op = "detectIngredients" /\ last.req.file

\* C9: every request that recipe generation, ingredient detection and
\* validate-stored send for a user with a current key carries the decryption
\* of the current key; the decryption of the legacy key is sent only when the
\* current key is absent.
C9_PreferCurrent ==
  (ReachesKey /\ Configured(users[last.user])) =>
    LET user == users[last.user]
        stored == IF CurrentPresent(user) THEN user.aiApiKey ELSE user.geminiApiKey
    IN  IF decrypt(stored, env.ENCRYPTION_SECRET).ok
          THEN /\ last.calls # << >>
               /\ \A i \in 1..Len(last.calls) :
                    Returned(last.calls[i].apiKey) = decrypt(stored, env.ENCRYPTION_SECRET)
          ELSE last.calls = << >>

\* C9 witness: ingredient detection ran for a record whose current and legacy
\* keys have different plaintexts.
C9_Witness ==
  /\ last.op = "detectIngredients"
  /\ last.calls # << >>
  /\ CurrentPresent(users[last.user])
  /\ LegacyPresent(users[last.user])
  /\ decrypt(users[last.user].aiApiKey, env.ENCRYPTION_SECRET).ok
  /\ decrypt(users[last.user].geminiApiKey, env.ENCRYPTION_SECRET).ok
  /\ decrypt(users[last.user].aiApiKey, env.ENCRYPTION_SECRET)
       # decrypt(users[last.user].geminiApiKey, env.ENCRYPTION_SECRET)

\* The response that tells the caller no key is configured.
NotConfiguredResponse ==
  IF last.op \in ValidateOps
    THEN last.res.status = 404 /\ last.res.body.message = "No API key configured"
    ELSE last.res.status = 500 /\ last.res.body.error = "No API key available"

\* C10 as stated: with no current and no legacy key every AI-calling request
\* fails as not configured and sends nothing, whatever the environment holds.
C10_NoKeyNoCall ==
  (ReachesKey /\ ~Configured(users[last.user])) =>
    last.calls = << >> /\ NotConfiguredResponse

\* The fallback key of the process for the provider a read of the record sees.
FallbackFor(stored) ==
  IF Hydrate(stored).aiProvider = "gemini" THEN env.GEMINI_API_KEY ELSE env.GROK_API_KEY

\* C10 amended: with no current and no legacy key, validate-stored answers
\* 404 and sends nothing; generation and detection fail as not configured
\* and send nothing if the environment holds no fallback key for the stored
\* provider, and otherwise send that fallback key to the stored provider.
C10_NoKeyFallback ==
  (ReachesKey /\ ~Configured(users[last.user])) =>
    IF last.op \in ValidateOps \/ FallbackFor(users[last.user]) = 0
      THEN last.calls = << >> /\ NotConfiguredResponse
      ELSE /\ last.calls # << >>
           /\ \A i \in 1..Len(last.calls) :
                /\ last.calls[i].apiKey = FallbackFor(users[last.user])
                /\ last.calls[i].provider = Hydrate(users[last.user]).aiProvider

\* C10 witness: generation failed as not configured for a key-less grok
\* record although the environment holds a gemini fallback key.
C10_Witness ==
  /\ last.op = "generateRecipes"
  /\ last.req.valid
  /\ ~Configured(users[last.user])
  /\ users[last.user].aiProvider = "grok"
  /\ env.GEMINI_API_KEY # 0
  /\ env.GROK_API_KEY = 0
  /\ last.calls = << >>
  /\ last.res.status = 500

\* The fields a response may carry.
OnlyMetadata(res) ==
  /\ DOMAIN res.body \subseteq {"success", "message", "data", "error"}
  /\ "data" \in DOMAIN res.body =>
       /\ DOMAIN res.body.data \subseteq
            {"hasApiKey", "provider", "model", "availableModels", "isValid",
             "profile", "sustainabilityStats"}
       /\ "hasApiKey" \in DOMAIN res.body.data => res.body.data.hasApiKey \in BOOLEAN
       /\ "provider" \in DOMAIN res.body.data =>
            res.body.data.provider \in DOMAIN AVAILABLE_MODELS
       /\ "model" \in DOMAIN res.body.data =>
            \E p \in DOMAIN AVAILABLE_MODELS :
              includes(AVAILABLE_MODELS[p], res.body.data.model)

\* C11: of two runs of set, get-status, validate-stored, delete and
\* get-profile requests that differ only in the keys supplied and stored,
\* the second answers every request with the response of the first, and
\* every response carries only success, message, error, the configured flag
\* and provider/model metadata.
C11_SecretNotReturned ==
  [][/\ last'.user = "bob" => last'.res = last.res
     /\ OnlyMetadata(last'.res)]_vars

\* C11 witness: both runs stored a key with the same request and the stored
\* keys decrypt to different plaintexts.
C11_Witness ==
  /\ last.user = "bob"
  /\ last.op = "setAIConfig"
  /\ last.res.status = 200
  /\ decrypt(users["alice"].aiApiKey, env.ENCRYPTION_SECRET).ok
  /\ decrypt(users["bob"].aiApiKey, env.ENCRYPTION_SECRET).ok
  /\ decrypt(users["alice"].aiApiKey, env.ENCRYPTION_SECRET)
       # decrypt(users["bob"].aiApiKey, env.ENCRYPTION_SECRET)

\* C12: each stored key field is null or a value of encrypt, of exactly four
\* parts (salt, iv, tag, data), and after a set request no key field of the
\* user holds the key of the request as it was sent.
C12_StoredEncrypted ==
  /\ \A u \in Users : \A f \in {"aiApiKey", "geminiApiKey"} :
       \/ users[u][f] = NoSecret
       \/ /\ isEncrypted(users[u][f])
          /\ users[u][f] \in EncryptedSecrets
  /\ (last.op \in SetOps /\ last.req.apiKey # 0) =>
       \A f \in {"aiApiKey", "geminiApiKey"} : users[last.user][f] # << last.req.apiKey >>

\* C12 witness: the legacy set endpoint stored a key in both fields.
C12_Witness ==
  /\ last.op = "setApiKey"
  /\ last.res.status = 200
  /\ isEncrypted(users[last.user].aiApiKey)
  /\ isEncrypted(users[last.user].geminiApiKey)

\* {provider, model, secret} of a stored record, of a write, and cleared.
TripleOf(stored) ==
  << Hydrate(stored).aiProvider, Hydrate(stored).aiModel, stored.aiApiKey >>
WrittenTriple(p) == << p.provider, p.model, p.encryptedKey >>
ClearedTriple == << "gemini", "gemini-2.5-flash-lite", NoSecret >>

Saving(r) == pending[r].pc = "save" /\ pending'[r].pc = "done"
Wrote(r) == pending[r].pc = "done" /\ pending[r].saved

C14_SerialOutcome ==
  (\A r \in Requests : pending[r].pc = "done") =>
    \A u \in ActiveUsers :
      /\ TripleOf(users[u]) \in
           {WrittenTriple(pending[r]) : r \in {x \in Requests : Wrote(x)}} \cup {ClearedTriple}
      /\ CurrentPresent(users[u]) =>
           \E r \in Requests :
             /\ Wrote(r)
             /\ pending[r].op = "setAIConfig"
             /\ pending[r].provider = Hydrate(users[u]).aiProvider
             /\ pending[r].model = Hydrate(users[u]).aiModel
             /\ decrypt(users[u].aiApiKey, env.ENCRYPTION_SECRET)
                  = Returned(pending[r].req.apiKey)

\* C15: every request that waits for the provider is answered in the end.
C15_ValidatorCompletes ==
  \A r \in Requests : (pending[r].pc = "validate") ~> (pending[r].pc = "done")

\* C16: a failed validateApiKey throws one of two errors: the invalid-key
\* error when the provider refuses the key as unauthorized, the
\* validation-failed error when the request fails for a reason that is not
\* the key (no connection, rate limit, empty reply).
C16_TwoErrorKinds ==
  (last.op = "validateApiKey" /\ last.req.apiKey # 0) =>
    /\ ~last.res.ok => last.res.error \in {"Invalid API key", "API key validation failed"}
    /\ last.calls[1].reply = "unauthorized" =>
         ~last.res.ok /\ last.res.error = "Invalid API key"
    /\ last.calls[1].reply \in {"network", "rate_limited", "empty"} =>
         ~last.res.ok /\ last.res.error = "API key validation failed"

\* The text is a string every character of which UTF-8 can encode.
WellFormed(text) == Utf8Decode(Utf8Encode(text)) = text

\* C17 as stated: decrypt returns every non-empty string encrypt was given,
\* under the same ENCRYPTION_SECRET.
C17_RoundTrip ==
  (/\ last.op = "decrypt"
   /\ last.req.tampering = "none"
   /\ last.req.master = env.ENCRYPTION_SECRET)
  => last.res = Returned(last.req.text)

\* C17 amended: decrypt returns every non-empty string without unpaired
\* surrogates that encrypt was given, under the same ENCRYPTION_SECRET; a
\* string with an unpaired surrogate comes back with U+FFFD in its place.
C17_RoundTripWellFormed ==
  (/\ last.op = "decrypt"
   /\ last.req.tampering = "none"
   /\ last.req.master = env.ENCRYPTION_SECRET)
  => /\ WellFormed(last.req.text) => last.res = Returned(last.req.text)
     /\ last.res = Returned(Utf8Decode(Utf8Encode(last.req.text)))

\* C17 witness: a key was encrypted and decrypted again, with a keystream
\* that changes it.
C17_Witness ==
  /\ last.op = "decrypt"
  /\ last.req.tampering = "none"
  /\ last.req.master = env.ENCRYPTION_SECRET
  /\ last.req.text \in Secrets
  /\ last.req.original[4] # last.req.text
  /\ last.res.ok

\* C18: decrypt fails when the data part or the tag part of an encrypted
\* string was changed or when ENCRYPTION_SECRET is not the one of the
\* encryption, and what decrypt returns is the text that was encrypted.
C18_TamperDetected ==
  (last.op = "decrypt" /\ WellFormed(last.req.text)) =>
    /\ last.req.tampering \in {"data", "tag", "tagHalf", "tagCut"} => ~last.res.ok
    /\ (last.req.tampering = "none" /\ last.req.master # env.ENCRYPTION_SECRET)
         => ~last.res.ok
    /\ last.res.ok => last.res.value = last.req.text

\* C19: decrypt of a string of fewer or more than four parts fails with an
\* error that is neither the one of a failed authentication nor the one of
\* an unset ENCRYPTION_SECRET.
C19_MalformedDistinct ==
  (last.op = "decrypt" /\ last.req.tampering \in {"three", "five", "one"}) =>
    /\ ~last.res.ok
    /\ last.res.error # decrypt(Tamper(last.req.original, "tag"), last.req.master).error
    /\ last.res.error # decrypt(last.req.original, 0).error

\* C20: while ENCRYPTION_SECRET is unset encrypt and decrypt throw, and every
\* set request fails and leaves the record of the user as it was.
C20_NoSecretNoWrite ==
  [][env.ENCRYPTION_SECRET = 0 =>
       /\ \A s \in Secrets, salt \in Salts, iv \in Ivs : ~encrypt(s, 0, salt, iv).ok
       /\ \A e \in EncryptedSecrets : ~decrypt(e, 0).ok
       /\ last'.op \in SetOps =>
            /\ last'.res.status \in {400, 500}
            /\ users' = users]_vars

\* C20 witness: without ENCRYPTION_SECRET a key the provider accepted was not
\* saved.
C20_Witness ==
  /\ env.ENCRYPTION_SECRET = 0
  /\ last.op = "setAIConfig"
  /\ last.calls # << >>
  /\ Answered(last.calls[1])
  /\ last.res.status = 500

\* The stored key the handlers read (the current one, else the legacy one)
\* does not decrypt under the ENCRYPTION_SECRET of the process.
Undecryptable(stored, master) ==
  /\ Configured(stored)
  /\ ~storedKeyOf(FindById(stored, Paths).doc, master).ok

\* What the caller is told went wrong.
ErrorOf(res) == IF "error" \in DOMAIN res.body THEN res.body.error ELSE res.body.message

\* C21: validate-stored, generation and detection for a record whose stored
\* key does not decrypt send nothing and fail with the error of decrypt; no
\* response for a key-less record and no response to a request the provider
\* was sent carries that error; and when validateApiKey throws its
\* invalid-key error, validate-stored answers 400 with that error.
C21_DecryptFailureDistinct ==
  ReachesKey =>
    LET user == users[last.user]
    IN  /\ Undecryptable(user, env.ENCRYPTION_SECRET) =>
              /\ last.calls = << >>
              /\ last.res.status \in {400, 500}
              /\ ~last.res.body.success
              /\ ErrorOf(last.res) = "Failed to decrypt data"
              /\ ~NotConfiguredResponse
        /\ (~Configured(user) \/ last.calls # << >>) =>
              ErrorOf(last.res) # "Failed to decrypt data"
        /\ (last.op \in ValidateOps /\ last.calls # << >>) =>
              LET c == last.calls[1]
                  validation == validateApiKey(c.apiKey, c.provider, c.model, c.reply)
              IN  (~validation.ok /\ validation.error = "Invalid API key") =>
                    /\ last.res.status = 400
                    /\ last.res.body.error = "Invalid API key"

\* C21 witness: generation failed for a record whose key was encrypted
\* under another ENCRYPTION_SECRET.
C21_Witness ==
  /\ last.op = "generateRecipes"
  /\ last.req.valid
  /\ env.ENCRYPTION_SECRET # 0
  /\ Undecryptable(users[last.user], env.ENCRYPTION_SECRET)
  /\ last.res.status = 500

\* The step is one of a request of user v.
ActsFor(v) ==
  \/ \E r \in Requests : pending'[r] # pending[r] /\ pending'[r].user = v
  \/ last' # last /\ last'.user = v

\* C22: a step of a set, delete, validate or status request of one user, at
\* any point between the steps of the requests of another, changes no field
\* of the other user's record, nor the status and the resolved key the other
\* user gets.
C22_UsersIndependent ==
  [][\A v \in Users :
       ~ActsFor(v) =>
         /\ users'[v] = users[v]
         /\ StatusOf(users'[v]) = StatusOf(users[v])
         /\ ResolvedOf(users'[v], env'.ENCRYPTION_SECRET)
              = ResolvedOf(users[v], env.ENCRYPTION_SECRET)]_vars

\* C22 witness: alice's set was saved while bob's delete was between its
\* load and its save, and bob's record still holds his key.
C22_Witness ==
  /\ pending[1].pc = "done" /\ pending[1].user = "alice"
  /\ pending[1].op = "setAIConfig" /\ pending[1].saved
  /\ pending[2].pc = "save" /\ pending[2].user = "bob"
  /\ Configured(users["bob"])
  /\ users["alice"] # users["bob"]

\* C23: a successful setAIConfig leaves the legacy key field of the record
\* as it was, absent or present, and writes the current key, the provider
\* and the model of the request.
C23_SetKeepsLegacy ==
  [][(last'.op = "setAIConfig" /\ last'.res.status = 200) =>
       LET u == last'.user
       IN  /\ users'[u].geminiApiKey = users[u].geminiApiKey
           /\ decrypt(users'[u].aiApiKey, env.ENCRYPTION_SECRET) = Returned(last'.req.apiKey)
           /\ users'[u].aiProvider = RequestedProvider("setAIConfig", last'.req)
           /\ users'[u].aiModel = RequestedModel("setAIConfig", last'.req)]_vars

\* C23 witness: a set succeeded on a record that holds a legacy key with
\* another plaintext.
C23_Witness ==
  /\ last.op = "setAIConfig"
  /\ last.res.status = 200
  /\ LegacyPresent(users[last.user])
  /\ decrypt(users[last.user].geminiApiKey, env.ENCRYPTION_SECRET).ok
  /\ decrypt(users[last.user].geminiApiKey, env.ENCRYPTION_SECRET)
       # Returned(last.req.apiKey)

\* The default model the documentation names for each provider.
DocumentedDefault(provider) ==
  IF provider = "gemini" THEN "gemini-2.5-flash-lite" ELSE "llama-3.3-70b-versatile"

\* C24: a setAIConfig request with a key, a supported provider and no model
\* is never refused for its model: it sends one validation request for the
\* documented default model of the provider, that model is one of the
\* provider's available models, and a successful call stores it.
C24_DefaultModel ==
  (/\ last.op = "setAIConfig"
   /\ last.req.apiKey # 0
   /\ last.req.model = NULL
   /\ OrElse(last.req.provider, "gemini") \in {"gemini", "grok"})
  => LET provider == OrElse(last.req.provider, "gemini")
     IN  /\ last.res.body.message # "Model is not available for provider"
         /\ Len(last.calls) = 1
         /\ last.calls[1].provider = provider
         /\ last.calls[1].model = DocumentedDefault(provider)
         /\ includes(getAvailableModels(provider), DocumentedDefault(provider))
         /\ last.res.status = 200 =>
              /\ users[last.user].aiModel = DocumentedDefault(provider)
              /\ last.res.body.data.model = DocumentedDefault(provider)

\* C24 witness: a set for grok that names no model succeeded.
C24_Witness ==
  /\ last.op = "setAIConfig"
  /\ last.req.provider = "grok"
  /\ last.req.model = NULL
  /\ last.res.status = 200

\* Two successful calls of encrypt, one after the other.
TwoEncrypts ==
  /\ last.op = "encrypt"
  /\ last.res.ok
  /\ last.previous # << >>
  /\ last.previous[1].res.ok

C26_DeleteResetsDefaults ==
  \A u \in Users :
    ~Configured(users[u]) =>
      /\ users[u].aiProvider = "gemini"
      /\ users[u].aiModel = "gemini-2.5-flash-lite"

\* C28: in every state the set and delete requests of both generations of
\* endpoints reach from new accounts, a record with a legacy key has a
\* current key; and after a successful setApiKey both fields decrypt to the
\* key of the request, the provider is gemini and the model
\* gemini-2.5-flash-lite.
C28_LegacyImpliesCurrent ==
  /\ \A u \in Users : LegacyPresent(users[u]) => CurrentPresent(users[u])
  /\ (last.op = "setApiKey" /\ last.res.status = 200) =>
       LET user == users[last.user]
       IN  /\ decrypt(user.aiApiKey, env.ENCRYPTION_SECRET) = Returned(last.req.apiKey)
           /\ decrypt(user.geminiApiKey, env.ENCRYPTION_SECRET) = Returned(last.req.apiKey)
           /\ user.aiProvider = "gemini"
           /\ user.aiModel = "gemini-2.5-flash-lite"

\* C28 witness: a set through the current endpoint followed a legacy set,
\* and the record holds a legacy key and a current key of another plaintext.
C28_Witness ==
  /\ last.op = "setAIConfig"
  /\ last.res.status = 200
  /\ LegacyPresent(users[last.user])
  /\ CurrentPresent(users[last.user])
  /\ decrypt(users[last.user].aiApiKey, env.ENCRYPTION_SECRET)
       # decrypt(users[last.user].geminiApiKey, env.ENCRYPTION_SECRET)
  /\ users[last.user].aiProvider = "grok"

\* The test request did not get a text back for a reason that is not the
\* key: it did not reach the provider, the provider limited the rate, or
\* Gemini answered with an empty text.
Unavailable(provider, reply) ==
  \/ reply \in {"network", "rate_limited"}
  \/ reply = "empty" /\ provider = "gemini"

\* C29: when the test request of a setAIConfig fails for a reason that is
\* not the key, or the provider refuses the key, the handler answers 400
\* with the error of validateApiKey, never loads or saves the user, and the
\* records are as they were.
C29_NothingOnFailure ==
  [][\A r \in Requests :
       (/\ pending[r].pc = "validate"
        /\ pending[r].op = "setAIConfig"
        /\ pending'[r] # pending[r]
        /\ \/ Unavailable(pending[r].provider, pending'[r].reply)
           \/ ErrorMarkers(pending[r].provider, pending'[r].reply) # {})
       => /\ pending'[r].pc = "done"
          /\ ~pending'[r].saved
          /\ pending'[r].res.status = 400
          /\ ~pending'[r].res.body.success
          /\ pending'[r].res.body.message =
               IF Unavailable(pending[r].provider, pending'[r].reply)
                 THEN "API key validation failed" ELSE "Invalid API key"
          /\ users' = users]_vars

\* C29 witness: a set failed on a rate limit while the record held a key.
C29_Witness ==
  \E r \in Requests :
    /\ pending[r].pc = "done"
    /\ pending[r].op = "setAIConfig"
    /\ pending[r].reply = "rate_limited"
    /\ pending[r].res.status = 400
    /\ Configured(users[pending[r].user])

\* C27: the save of updateProfile, updateAccount and saveToHistory leaves
\* the provider, the model and the two keys of every user as a reader of the
\* document sees them, whatever was written since the handler loaded it.
C27_OthersKeepCredentials ==
  [][\A r \in Requests :
       (pending[r].pc = "saveDocument" /\ pending'[r].pc = "done") =>
         \A u \in Users : Hydrate(users'[u]) = Hydrate(users[u])]_vars

\* The saveToHistory requests of user u that were answered with 201.
Cooked(u) ==
  { r \in Requests :
      /\ pending[r].pc = "done"
      /\ pending[r].op = "saveToHistory"
      /\ pending[r].user = u
      /\ pending[r].saved }

\* C30: sustainabilityStats.timesCooked of a user has grown by the number
\* of the user's saveToHistory requests that succeeded.
C30_NoLostIncrement ==
  \A u \in Users : timesCooked[u] = Cardinality(Cooked(u))

====
